---- MODULE Spec2Model ----
(* Model of src/net/uring/io_uring.c: one thread owning one io_uring,      *)
(* submitting recvmsg / nop requests and blocking in receive_into, with    *)
(* the kernel completing in-flight requests in any order.                  *)
EXTENDS Integers, Sequences, FiniteSets, TLC

(* ---------------------------------------------------------------- bounds *)
SQEntries == 1          \* submission-queue depth of the ring (setup is external)
NDesc     == 2          \* pending-request descriptors the caller owns
MaxBuf    == 1          \* largest buffer capacity passed to submit_recvmsg_request
MaxOps    == 2          \* submissions made on the ring in one run

(* ------------------------------------------------------------- constants *)
EINTR  == 4
NULL   == 0
SizeofSockaddrIn == 16
NopRet == -1            \* line 44: return -1

Descs    == 1..NDesc
BufLens  == 1..MaxBuf
DgramLens == {1, MaxBuf + 1}  \* the shortest datagram, and one no buffer holds
Slots    == 0..(SQEntries - 1)
CqeErrs  == {-1, -11}        \* negative cqe->res values: -EPERM, -EAGAIN
WaitRets == {-EINTR, -9}      \* negative io_uring_wait_cqe results: -EINTR, -EBADF

Min(a, b) == IF a < b THEN a ELSE b

VARIABLES
    iov,          \* iov[i]  = [iov_base, iov_len]          (struct iovec)
    mhdr,         \* mhdr[m] = [msg_iov, msg_iovlen, msg_name, msg_namelen]
    sqes,         \* the ring's submission-queue entries, by slot
    sqTail,       \* slot the next io_uring_get_sqe hands out
    sqPending,    \* entries obtained but not yet consumed by the kernel
    inflight,     \* requests the kernel has accepted and not yet completed
    cq,           \* completion queue: entries posted and not yet marked seen
    pc,           \* "idle" | "wait" (inside receive_into) | "crashed"
    ret,          \* receive_into's local `ret` (last io_uring_wait_cqe result)
    last,         \* the call that returned last and what it returned (none while
                  \* receive_into is running)
    libClears,    \* whether this liburing build's prep helpers zero user_data
    nsub,         \* number of io_uring_get_sqe slots handed out so far
    submitted,    \* history: receive requests enqueued by submit_recvmsg_request
    done          \* history: completions released with io_uring_cqe_seen

vars == <<iov, mhdr, sqes, sqTail, sqPending, inflight, cq, pc, ret, last,
          libClears, nsub, submitted, done>>

NoIov  == [iov_base |-> NULL, iov_len |-> 0]
NoMhdr == [msg_iov |-> NULL, msg_iovlen |-> 0, msg_name |-> NULL, msg_namelen |-> 0]
NoSqe  == [opcode |-> "nop", addr |-> NULL, msg_flags |-> 0, user_data |-> NULL,
           id |-> 0, cap |-> 0]
NoCqe  == [id |-> 0, opcode |-> "nop", addr |-> NULL, user_data |-> NULL,
           res |-> 0, dlen |-> 0, cap |-> 0, wbuf |-> NULL, wname |-> NULL,
           reports |-> 0]
NoCall == [call |-> "none", retval |-> 0, kind |-> "none", seen |-> 0,
           cqe |-> NoCqe, intr |-> FALSE, free |-> TRUE, queued |-> 0,
           ops |-> <<>>]

Init ==
    /\ iov = [i \in Descs |-> NoIov]
    /\ mhdr = [m \in Descs |-> NoMhdr]
    /\ sqes = [s \in Slots |-> NoSqe]
    /\ sqTail = 0
    /\ sqPending = 0
    /\ inflight = {}
    /\ cq = <<>>
    /\ pc = "idle"
    /\ ret = 0
    /\ last = NoCall
    /\ libClears \in BOOLEAN
    /\ nsub = 0
    /\ submitted = {}
    /\ done = {}

(* ------------------------------------------------------ liburing helpers *)
\* slots obtained with io_uring_get_sqe that the kernel has not consumed yet
PendingSlots(tail, pending) ==
    {(tail + SQEntries - k) % SQEntries : k \in 1..pending}

\* io_uring_get_sqe: NULL when every slot is still pending
SqFull == sqPending = SQEntries

\* io_uring_prep_recvmsg(sqe, sock, msg, flags): the helper fills the entry;
\* whether it also zeroes user_data depends on the liburing build
io_uring_prep_recvmsg(sqe, m, flags) ==
    [sqe EXCEPT !.opcode = "recvmsg", !.addr = m, !.msg_flags = flags,
                !.user_data = IF libClears THEN NULL ELSE @]

\* io_uring_prep_nop(sqe)
io_uring_prep_nop(sqe) ==
    [sqe EXCEPT !.opcode = "nop", !.addr = NULL, !.msg_flags = 0,
                !.user_data = IF libClears THEN NULL ELSE @]

\* io_uring_sqe_set_data(sqe, data)
io_uring_sqe_set_data(sqe, data) == [sqe EXCEPT !.user_data = data]

\* request the kernel creates from a consumed submission entry
Req(sqe) == [id |-> sqe.id, opcode |-> sqe.opcode, addr |-> sqe.addr,
             msg_flags |-> sqe.msg_flags, user_data |-> sqe.user_data,
             cap |-> sqe.cap]

\* io_uring_submit(ring): on success the kernel consumes every pending entry;
\* on failure (its result is ignored by the callers) it consumes none
SubmitInflight(sq, tail, pending, ok) ==
    IF ok THEN inflight \cup {Req(sq[s]) : s \in PendingSlots(tail, pending)}
    ELSE inflight
SubmitPending(pending, ok) == IF ok THEN 0 ELSE pending

(* ------------------------------------------------------ caller discipline *)
\* a descriptor is owned by the ring from submission until a receive_into
\* call has reported its completion; the caller never resubmits one the ring
\* owns and, descriptors being interchangeable, takes the lowest-numbered
\* one that is not owned
Busy(d) ==
    \/ \E s \in PendingSlots(sqTail, sqPending) : sqes[s].addr = d
    \/ \E r \in inflight : r.addr = d
    \/ \E k \in 1..Len(cq) : cq[k].opcode = "recvmsg" /\ cq[k].addr = d
                             /\ cq[k].reports = 0

(* ---------------------------------------------------------- submission *)
\* variant of WireIov: the iovec length is one more than the capacity
WireIov_LenOff(i, b, buflen) ==
    [iov EXCEPT ![i] = [iov_base |-> b, iov_len |-> buflen + 1]]

\* lines 62-69: wire the buffer into the iovec and both into the msghdr
WireIov(i, b, buflen) == [iov EXCEPT ![i] = [iov_base |-> b, iov_len |-> buflen]]
WireMhdr(m, i, s) ==
    [mhdr EXCEPT ![m] = [msg_iov |-> i, msg_iovlen |-> 1,
                         msg_name |-> s, msg_namelen |-> SizeofSockaddrIn]]

\* variant of RecvmsgSqe: every request is tagged with the first descriptor
RecvmsgSqe_FirstTag(sqe, m) ==
    io_uring_sqe_set_data(io_uring_prep_recvmsg(sqe, m, 0), 1)

\* lines 72-73: the entry written into the slot
RecvmsgSqe(sqe, m) ==
    io_uring_sqe_set_data(io_uring_prep_recvmsg(sqe, m, 0), m)

\* submit_recvmsg_request(sock, ring, mhdr, iov, sender, buf, buflen)
submit_recvmsg_request(m, i, s, b, buflen, ok, ub) ==
    /\ pc = "idle"
    /\ nsub < MaxOps
    /\ ~Busy(m)
    /\ \A e \in Descs : e < m => Busy(e)
    /\ iov' = WireIov(i, b, buflen)
    /\ mhdr' = WireMhdr(m, i, s)
    /\ IF SqFull
       THEN \* io_uring_get_sqe returned NULL and the NULL entry is written to
            /\ UNCHANGED <<sqes, sqTail, nsub, submitted>>
            /\ IF ub = "crash"
               THEN /\ pc' = "crashed"
                    /\ UNCHANGED <<sqPending, inflight>>
                    /\ last' = [NoCall EXCEPT !.call = "submit_recvmsg",
                                   !.kind = "crash", !.free = FALSE]
               ELSE /\ pc' = "idle"
                    /\ inflight' = SubmitInflight(sqes, sqTail, sqPending, ok)
                    /\ sqPending' = SubmitPending(sqPending, ok)
                    /\ last' = [NoCall EXCEPT !.call = "submit_recvmsg",
                                   !.kind = "returned", !.retval = 0,
                                   !.free = FALSE]
       ELSE LET sq1 == [sqes EXCEPT ![sqTail] =
                            RecvmsgSqe([@ EXCEPT !.id = nsub + 1, !.cap = buflen], m)]
                tail1 == (sqTail + 1) % SQEntries
            IN  /\ sqes' = sq1
                /\ sqTail' = tail1
                /\ nsub' = nsub + 1
                /\ submitted' = submitted \cup
                       {[id |-> nsub + 1, handle |-> m, buf |-> b,
                         sender |-> s]}
                /\ inflight' = SubmitInflight(sq1, tail1, sqPending + 1, ok)
                /\ sqPending' = SubmitPending(sqPending + 1, ok)
                /\ pc' = "idle"
                /\ last' = [NoCall EXCEPT !.call = "submit_recvmsg",
                               !.kind = "returned", !.retval = 0,
                               !.queued = 1]
    /\ UNCHANGED <<cq, ret, libClears, done>>

\* submit_nop_request(ring)
submit_nop_request(ok, ub) ==
    /\ pc = "idle"
    /\ nsub < MaxOps
    /\ IF SqFull
       THEN /\ UNCHANGED <<sqes, sqTail, nsub>>
            /\ IF ub = "crash"
               THEN /\ pc' = "crashed"
                    /\ UNCHANGED <<sqPending, inflight>>
                    /\ last' = [NoCall EXCEPT !.call = "submit_nop",
                                   !.kind = "crash", !.free = FALSE]
               ELSE /\ pc' = "idle"
                    /\ inflight' = SubmitInflight(sqes, sqTail, sqPending, ok)
                    /\ sqPending' = SubmitPending(sqPending, ok)
                    /\ last' = [NoCall EXCEPT !.call = "submit_nop",
                                   !.kind = "returned", !.free = FALSE]
       ELSE LET sq1 == [sqes EXCEPT ![sqTail] =
                            io_uring_prep_nop([@ EXCEPT !.id = nsub + 1, !.cap = 0])]
                tail1 == (sqTail + 1) % SQEntries
            IN  /\ sqes' = sq1
                /\ sqTail' = tail1
                /\ nsub' = nsub + 1
                /\ inflight' = SubmitInflight(sq1, tail1, sqPending + 1, ok)
                /\ sqPending' = SubmitPending(sqPending + 1, ok)
                /\ pc' = "idle"
                /\ last' = [NoCall EXCEPT !.call = "submit_nop",
                               !.kind = "returned", !.queued = 1]
    /\ UNCHANGED <<iov, mhdr, cq, ret, libClears, submitted, done>>

(* --------------------------------------------------------------- kernel *)
\* bytes a recvmsg of a dlen-byte datagram stores through the request's
\* msghdr: the datagram cut to the iovec's length
RecvmsgRes(r, dlen) == Min(dlen, iov[mhdr[r.addr].msg_iov].iov_len)

\* the completion the kernel posts for request r; out is a datagram length
\* (the operation ran) or a negative errno (it failed)
Cqe(r, out) ==
    LET ran == out >= 0
        rcv == ran /\ r.opcode = "recvmsg"
    IN  [id |-> r.id, opcode |-> r.opcode, addr |-> r.addr,
         user_data |-> r.user_data,
         res   |-> IF ~ran THEN out ELSE IF rcv THEN RecvmsgRes(r, out) ELSE 0,
         dlen  |-> IF rcv THEN out ELSE 0,
         cap   |-> r.cap,
         wbuf  |-> IF rcv THEN iov[mhdr[r.addr].msg_iov].iov_base ELSE NULL,
         wname |-> IF rcv THEN mhdr[r.addr].msg_name ELSE NULL,
         reports |-> 0]

\* how a request can end: a receive gets a datagram or fails, a no-op
\* finishes with 0 or is failed before it runs
Outcomes(r) ==
    IF r.opcode = "recvmsg" THEN DgramLens \cup CqeErrs ELSE {0} \cup CqeErrs

\* the kernel finishes one in-flight request, in any order
KernelComplete(r, out) ==
    /\ pc # "crashed"
    /\ r \in inflight
    /\ out \in Outcomes(r)
    /\ inflight' = inflight \ {r}
    /\ cq' = Append(cq, Cqe(r, out))
    /\ UNCHANGED <<iov, mhdr, sqes, sqTail, sqPending, pc, ret, last,
                   libClears, nsub, submitted, done>>

(* ---------------------------------------------------------- receive_into *)
\* variant of WaitBranch: -EINTR is treated like any other failure
WaitBranch_NoRetry(w) ==
    IF w < 0 THEN "fail" ELSE "decode"

\* variant of WaitBranch: every failure of the wait is retried
WaitBranch_RetryAll(w) ==
    IF w < 0 THEN "again" ELSE "decode"

\* variant of WaitBranch: a wait result of 0 is retried as well
WaitBranch_AgainOnZero(w) ==
    IF w = -EINTR \/ w = 0 THEN "again"
    ELSE IF w < 0 THEN "fail"
    ELSE "decode"

\* lines 28-36: what the code does with io_uring_wait_cqe's result
WaitBranch(w) ==
    IF w = -EINTR THEN "again"
    ELSE IF w < 0 THEN "fail"
    ELSE "decode"

\* variant of Decode: the null-handle check comes before the result check
Decode_NullFirst(c) ==
    IF c.user_data = NULL
    THEN [retval |-> NopRet, kind |-> "nop", seen |-> 0]
    ELSE IF c.res < 0
    THEN [retval |-> c.res, kind |-> "cqe_error", seen |-> 0]
    ELSE [retval |-> c.res, kind |-> "success", seen |-> 1]

\* lines 37-48: the value returned for a dequeued completion, the branch
\* taken, and the number of io_uring_cqe_seen calls made on the way
Decode(c) ==
    IF c.res < 0
    THEN [retval |-> c.res, kind |-> "cqe_error", seen |-> 0]
    ELSE IF c.user_data = NULL
    THEN [retval |-> NopRet, kind |-> "nop", seen |-> 0]
    ELSE [retval |-> c.res, kind |-> "success", seen |-> 1]

\* variant of DecodeOps: the entry is released before its result is copied
DecodeOps_SeenFirst(c) ==
    IF c.res < 0 THEN <<"res", "res", "res">>
    ELSE IF c.user_data = NULL THEN <<"res", "data">>
    ELSE <<"res", "data", "seen", "res">>

\* lines 37-48 in program order: the accesses to the completion entry
\* ("res": cqe->res is read, "data": io_uring_cqe_get_data reads user_data,
\* "seen": io_uring_cqe_seen releases the entry)
DecodeOps(c) ==
    IF c.res < 0 THEN <<"res", "res", "res">>
    ELSE IF c.user_data = NULL THEN <<"res", "data">>
    ELSE <<"res", "data", "res", "seen">>

Bump(c) == [c EXCEPT !.reports = Min(@ + 1, 2)]

\* variant of WaitSubmits: the wait flushes the submission queue first, as
\* io_uring_submit_and_wait does
WaitSubmits_AndWait == TRUE

\* line 27: io_uring_wait_cqe only waits for a completion; entries still
\* pending in the submission queue are not handed to the kernel by it
WaitSubmits == FALSE

\* the caller enters receive_into (label `again`)
ReceiveCall ==
    /\ pc = "idle"
    /\ pc' = "wait"
    /\ ret' = 0
    /\ last' = NoCall
    /\ UNCHANGED <<iov, mhdr, sqes, sqTail, sqPending, inflight, cq,
                   libClears, nsub, submitted, done>>

\* one io_uring_wait_cqe call and everything receive_into does after it;
\* w is the wait's result: 0 once a completion is queued, an errno before
WaitCqe(w) ==
    /\ pc = "wait"
    /\ IF cq # <<>> THEN w = 0 ELSE w \in WaitRets
    /\ ret' = w
    /\ IF WaitBranch(w) = "again"
       THEN UNCHANGED <<pc, cq, last, done>>
       ELSE IF WaitBranch(w) = "fail"
       THEN /\ pc' = "idle"
            /\ last' = [NoCall EXCEPT !.call = "receive_into", !.retval = w,
                                      !.kind = "wait_error",
                                      !.intr = (ret = -EINTR)]
            /\ UNCHANGED <<cq, done>>
       ELSE LET c == Head(cq)
                d == Decode(c)
            IN  /\ pc' = "idle"
                /\ last' = [NoCall EXCEPT !.call = "receive_into",
                               !.retval = d.retval, !.kind = d.kind,
                               !.seen = d.seen, !.cqe = Bump(c),
                               !.ops = DecodeOps(c),
                               !.intr = (ret = -EINTR)]
                /\ IF d.seen = 1
                   THEN /\ cq' = Tail(cq)
                        /\ done' = done \cup {[id |-> c.id, user_data |-> c.user_data]}
                   ELSE /\ cq' = <<Bump(c)>> \o Tail(cq)
                        /\ done' = done
    /\ inflight' = SubmitInflight(sqes, sqTail, sqPending, WaitSubmits)
    /\ sqPending' = SubmitPending(sqPending, WaitSubmits)
    /\ UNCHANGED <<iov, mhdr, sqes, sqTail, libClears, nsub, submitted>>

(* ------------------------------------------------------------------ spec *)
Next ==
    \/ \E d \in Descs, buflen \in BufLens, ok \in BOOLEAN, ub \in {"crash", "skip"} :
           submit_recvmsg_request(d, d, d, d, buflen, ok, ub)
    \/ \E ok \in BOOLEAN, ub \in {"crash", "skip"} : submit_nop_request(ok, ub)
    \/ \E r \in inflight : \E out \in Outcomes(r) : KernelComplete(r, out)
    \/ ReceiveCall
    \/ \E w \in WaitRets \cup {0} : WaitCqe(w)


Spec == Init /\ [][Next]_vars

\* io_uring_wait_cqe is a blocking call: once a completion is queued it
\* returns 0 and receive_into runs on to its return
FairSpec == Spec /\ WF_vars(WaitCqe(0))

(* ================================================================ claims *)
\* the last returned call was a receive_into that dequeued a completion
\* (last.cqe is that completion)
Dequeued == last.call = "receive_into" /\ last.cqe.id # 0
\* completions still queued, and the one dequeued last
SeenCqes == {cq[k] : k \in 1..Len(cq)} \cup (IF Dequeued THEN {last.cqe} ELSE {})
\* a step of receive_into from its io_uring_wait_cqe call
WaitStep == pc = "wait" /\ (pc' # pc \/ ret' # ret)

\* C1: every receive_into call that dequeued a completion marked it seen
\* exactly once before returning, whichever of the three branches it took.
C1_SeenOncePerDequeue ==
    Dequeued => last.seen = 1

\* C2: the value returned for a no-op completion differs from every value
\* returned for a completion-level or wait-level failure.
C2_NopDistinct ==
    (last.call = "receive_into" /\ last.kind = "nop")
        => last.retval \notin (CqeErrs \cup (WaitRets \ {-EINTR}))

\* C3: with no free submission slot submit_recvmsg_request returns a failure
\* and enqueues nothing; it returns success only when it enqueued a request.
C3_FullReportsFailure ==
    last.call = "submit_recvmsg" =>
        /\ ~last.free => (last.kind = "returned" /\ last.retval # 0
                          /\ last.queued = 0)
        /\ (last.kind = "returned" /\ last.retval = 0) => last.queued = 1

\* C4: a wait interrupted with -EINTR is never returned and leaves the
\* completion queue as it was; the call goes on waiting and, once a
\* completion is queued, returns the result of that completion.
C4_EintrTransparent ==
    /\ [][(WaitStep /\ ret' = -EINTR)
            => (pc' = "wait" /\ cq' = cq /\ done' = done /\ last' = last)]_vars
    /\ [][(WaitStep /\ ret = -EINTR /\ ret' = 0)
            => /\ pc' = "idle"
               /\ last'.cqe.id = Head(cq).id
               /\ last'.retval = (IF Head(cq).res >= 0 /\ Head(cq).user_data = NULL
                                  THEN NopRet ELSE Head(cq).res)]_vars
C4_Witness ==
    /\ pc = "idle" /\ Dequeued /\ last.kind = "success" /\ last.intr
    /\ last.cqe.opcode = "recvmsg" /\ last.retval = last.cqe.res

\* C5: a successful receive returns min(datagram size, capacity passed to
\* submit_recvmsg_request), a non-negative count.
C5_ByteCount ==
    (Dequeued /\ last.cqe.opcode = "recvmsg" /\ last.kind = "success") =>
        /\ last.retval = Min(last.cqe.dlen, last.cqe.cap)
        /\ last.retval >= 0
C5_Witness ==
    /\ Dequeued /\ last.cqe.opcode = "recvmsg" /\ last.kind = "success"
    /\ last.cqe.dlen > last.cqe.cap /\ last.retval = last.cqe.cap

\* C6: when only receive requests were submitted and as many completions
\* were consumed, the consumed completions carry exactly the submitted
\* handles, each as often as it was submitted; and every completed receive
\* wrote the buffer and address slot of the descriptor its handle names.
C6_HandlesMatch ==
    /\ (nsub = Cardinality(submitted) /\ Cardinality(done) = nsub) =>
           \A d \in Descs :
               Cardinality({c \in done : c.user_data = d})
                   = Cardinality({s \in submitted : s.handle = d})
    /\ \A c \in SeenCqes :
           (c.opcode = "recvmsg" /\ c.res >= 0) =>
               \E s \in submitted :
                   /\ s.id = c.id /\ s.handle = c.user_data
                   /\ c.wbuf = s.buf /\ c.wname = s.sender
\* every submitted receive consumed, the first submitted one consumed last
C6_Witness ==
    /\ nsub = Cardinality(submitted) /\ Cardinality(done) = nsub /\ nsub >= 2
    /\ Dequeued /\ last.cqe.id = 1
    /\ \E c1, c2 \in done : c1.user_data # c2.user_data

\* C7: a no-op's completion is reported as the no-payload condition and
\* never as a byte count.
C7_NopNeverCount ==
    (Dequeued /\ last.cqe.opcode = "nop") =>
        /\ last.kind # "success"
        /\ last.cqe.res >= 0 => (last.kind = "nop" /\ last.retval = NopRet)

\* C8: a completion with a negative result is returned as exactly that
\* code, whatever its correlation handle is.
C8_NegativeFirst ==
    (Dequeued /\ last.cqe.res < 0) =>
        (last.retval = last.cqe.res /\ last.kind = "cqe_error")
C8_Witness ==
    /\ Dequeued /\ last.cqe.res < 0 /\ last.cqe.user_data = NULL
    /\ last.cqe.res # NopRet /\ last.retval = last.cqe.res

\* C9: a wait failure other than -EINTR is returned at once, with no retry
\* and no completion consumed or released.
C9_WaitFailure ==
    [][(WaitStep /\ ret' < 0 /\ ret' # -EINTR)
         => /\ pc' = "idle"
            /\ last'.call = "receive_into" /\ last'.kind = "wait_error"
            /\ last'.retval = ret' /\ last'.seen = 0 /\ last'.cqe = NoCqe
            /\ cq' = cq /\ done' = done]_vars
C9_Witness ==
    /\ pc = "idle" /\ last.call = "receive_into" /\ last.kind = "wait_error"
    /\ last.retval = -9 /\ inflight # {}

\* C10: after a failure or no-op was reported the next call reports a new
\* completion: no queued completion has been reported already, and none is
\* reported by two calls.
C10_RingStaysUsable ==
    /\ \A k \in 1..Len(cq) : cq[k].reports = 0
    /\ Dequeued => last.cqe.reports <= 1

\* C11: every submission entry written by submit_nop_request carries the
\* null correlation handle, also in a slot that an earlier
\* submit_recvmsg_request tagged with a descriptor.
C11_NopHandleNull ==
    \A s \in Slots :
        (sqes[s].opcode = "nop" /\ sqes[s].id # 0) => sqes[s].user_data = NULL

\* a step in which submit_recvmsg_request obtained a free slot
RecvmsgEnqueued == last'.call = "submit_recvmsg" /\ nsub' = nsub + 1

\* C12: a submit_recvmsg_request call that finds a free slot writes exactly
\* one recvmsg entry (no flags, one iovec covering the buffer and capacity,
\* the address slot as message name, the descriptor as handle) and flushes
\* it: on return nothing is queued unsubmitted and exactly one more request
\* is in flight.
C12_EnqueueAndFlush ==
    [][RecvmsgEnqueued =>
         /\ Cardinality(submitted' \ submitted) = 1
         /\ \A s \in submitted' \ submitted :
              LET e == sqes'[sqTail]
                  h == mhdr'[s.handle]
              IN  /\ e.opcode = "recvmsg" /\ e.msg_flags = 0
                  /\ e.addr = s.handle /\ e.user_data = s.handle
                  /\ h.msg_iovlen = 1 /\ h.msg_name = s.sender
                  /\ iov'[h.msg_iov] = [iov_base |-> s.buf, iov_len |-> e.cap]
                  /\ \A t \in Slots \ {sqTail} : sqes'[t] = sqes[t]
         /\ sqPending' = 0
         /\ Cardinality(inflight') = Cardinality(inflight) + 1]_vars

\* C13: receive_into returns only with a completion it obtained from a
\* wait that was not interrupted, or with the code of a wait that failed
\* for another reason than -EINTR; and a call that is waiting while a
\* completion is queued eventually returns.
C13_ReturnsWithResult ==
    /\ [][(pc = "wait" /\ pc' = "idle") =>
            \/ /\ cq # <<>> /\ ret' = 0
               /\ last'.call = "receive_into" /\ last'.cqe.id = Head(cq).id
            \/ /\ cq = <<>> /\ ret' < 0 /\ ret' # -EINTR
               /\ last'.call = "receive_into" /\ last'.kind = "wait_error"
               /\ last'.retval = ret']_vars
    /\ (pc = "wait" /\ cq # <<>>) ~> (pc = "idle")
C13_Witness ==
    /\ pc = "idle" /\ Dequeued /\ last.intr /\ last.kind = "cqe_error"
    /\ ret = 0

\* C14: on the success path the result and the correlation handle are read
\* from the completion entry before the entry is marked seen, and on no
\* path is the entry read after it was released.
C14_ReadBeforeSeen ==
    Dequeued =>
        LET o == last.ops
            I == 1..Len(o)
        IN  /\ \A i, j \in I : (o[i] = "seen" /\ j > i) => o[j] \notin {"res", "data"}
            /\ last.kind = "success" =>
                   \E i, j, k \in I : /\ o[i] = "res" /\ o[j] = "data" /\ o[k] = "seen"
                                      /\ i < k /\ j < k
C14_Witness ==
    /\ Dequeued /\ last.kind = "success" /\ last.seen = 1
    /\ last.cqe.opcode = "recvmsg" /\ last.retval = last.cqe.res
    /\ \E k \in 1..Len(last.ops) : last.ops[k] = "seen"

\* a step taken by receive_into: entering it, or a step inside it that is
\* not the kernel posting a completion
ReceiveStep ==
    \/ pc = "idle" /\ pc' = "wait"
    \/ pc = "wait" /\ Len(cq') <= Len(cq)

\* C15: receive_into leaves the submission queue, the in-flight requests
\* and every descriptor as they were, on every path.
C15_Frame ==
    [][ReceiveStep =>
         UNCHANGED <<iov, mhdr, sqes, sqTail, sqPending, inflight,
                     nsub, submitted>>]_vars
C15_Witness ==
    /\ pc = "idle" /\ Dequeued /\ last.kind = "success"
    /\ sqPending > 0
    /\ \E d \in Descs : mhdr[d].msg_iovlen = 1 /\ iov[d].iov_len = last.cqe.cap
====
